---- MODULE Spec2Model ----
(***************************************************************************)
(* State-machine model of the nix-dataloggers store-and-forward pipeline.  *)
(*                                                                         *)
(* The repository holds three independent programs, each with its own      *)
(* SQLite file and schema; a behaviour runs exactly one of them:           *)
(*   "db"    modules/modbus_datalogger/src/database.py  (sent_flag)        *)
(*   "pub"   modules/modbus_datalogger/src/publish.py   (is_published)     *)
(*   "store" datalogger/{main,store,publish}.py         (published)        *)
(***************************************************************************)
EXTENDS Integers, Sequences, FiniteSets

VARIABLES
    program,      \* which of the three programs this behaviour runs
    readings,     \* database.py: the readings table (set of rows)
    last,         \* database.py: the last call made, its outcome and result
    everMax,      \* database.py: highest id the table ever assigned (history)
    pubRows,      \* publish.py: the readings table (is_published schema)
    pubCfg,       \* publish.py: the "enabled" flag of each configured sink
    pubPc,        \* publish.py: position of the publish() cycle
    pubRow,       \* publish.py: row_id held by the running api()/mqtt_publish()
    cyc,          \* publish.py: what the running publish() cycle did (history)
    storeRows,    \* store.py: the readings table (published schema)
    storeSeq,     \* store.py: sqlite_sequence of the AUTOINCREMENT key
    storePc,      \* datalogger/main.py: position of the scheduler thread
    drained,      \* datalogger/publish.py: `readings`, the drained rows
    idx,          \* datalogger/publish.py: rows of `readings` already handled
    publishedIds, \* datalogger/publish.py: `published_ids`
    freeGb,       \* free space of the volume holding the database, in GB
    tick,         \* datalogger/main.py: what the last job did (history)
    acked,        \* ids whose delivery some sink acknowledged (history)
    agent,        \* datalogger/main.py: how far __main__ has come
    mb            \* modbus.py: the client and the running read_modbus_data

vars == <<program, readings, last, everMax, pubRows, pubCfg, pubPc, pubRow, cyc,
          storeRows, storeSeq, storePc, drained, idx, publishedIds, freeGb,
          tick, acked, agent, mb>>

dbVars == <<readings, last, everMax>>
pubVars == <<pubRows, pubCfg, pubPc, pubRow>>
storeVars == <<storeRows, storeSeq, storePc, drained, idx, publishedIds, freeGb, tick>>

(***************************************************************************)
(* Bounds of the model and constants of the program.                       *)
(***************************************************************************)
MaxId == 3          \* highest row id a table of the model hands out
MaxBatch == 2       \* longest batch / id list passed to one call
PruneLimit == 5000  \* DELETE ... LIMIT 5000
PublishLimit == 50  \* get_unpublished_readings(limit=50)

\* A NULL timestamp; the clock values of the model are 1 and 2.
Null == 0
Unserializable == "<object>"
StationId == "test_cpu"

Min(a, b) == IF a < b THEN a ELSE b

\* Readings a caller can pass: two well-formed samples (the clock value and the
\* measurement differ), and the two malformed shapes the insert can meet.
GoodReadings ==
    { [timestamp |-> 1, cpu_id |-> StationId, data |-> "p"],
      [timestamp |-> 2, cpu_id |-> StationId, data |-> "q"] }
BadReadings ==
    { [timestamp |-> Null, cpu_id |-> StationId, data |-> "p"],
      [timestamp |-> 1, cpu_id |-> StationId, data |-> Unserializable] }
Readings == GoodReadings \cup BadReadings

SeqsUpTo(S, n) == UNION { [1..k -> S] : k \in 0..n }
Batches == SeqsUpTo(Readings, MaxBatch)
IdLists == SeqsUpTo(1..MaxId, MaxBatch)
BatchSizes == 0..MaxId

(***************************************************************************)
(* SQL and JSON helpers.                                                   *)
(***************************************************************************)
\* json.dumps / json.loads of a measurement dict: the stored text is not the
\* dict; loads gives the dict back for every text dumps wrote.
JsonDumps(d) == <<"json", d>>
JsonValid(s) == Len(s) = 2 /\ s[1] = "json"
JsonLoads(s) == s[2]

Ids(T) == { r.id : r \in T }
RowOf(T, i) == CHOOSE r \in T : r.id = i
MaxRowId(T) == IF T = {} THEN 0 ELSE CHOOSE m \in Ids(T) : \A j \in Ids(T) : j <= m

\* id INTEGER PRIMARY KEY (no AUTOINCREMENT): SQLite hands out one more than the
\* largest rowid now in the table.
NextRowId(T) == MaxRowId(T) + 1

RECURSIVE OrderByIdAsc(_)
OrderByIdAsc(T) ==
    IF T = {} THEN <<>>
    ELSE LET r == CHOOSE x \in T : \A y \in T : x.id <= y.id
         IN  <<r>> \o OrderByIdAsc(T \ {r})

\* LIMIT n: a negative n means no limit.
SqlLimit(s, n) == IF n < 0 THEN s ELSE SubSeq(s, 1, Min(n, Len(s)))

Unsent(T) == { r \in T : r.sent_flag = 0 }
Sent(T) == { r \in T : r.sent_flag = 1 }

(***************************************************************************)
(* database.py                                                             *)
(***************************************************************************)
\* The tuples of data_to_insert; json.dumps raises on an unserializable dict.
Serializable(batch) == \A i \in 1..Len(batch) : batch[i].data # Unserializable

InsertRow(T, r) ==
    T \cup { [id |-> NextRowId(T), timestamp |-> r.timestamp, cpu_id |-> r.cpu_id,
              data_json |-> JsonDumps(r.data), sent_flag |-> 0] }

\* The row on which executemany raises sqlite3.Error: a NULL timestamp breaks
\* the NOT NULL constraint (a lock timeout or a full disk met at that row takes
\* the same handler).
RowFails(r) == r.timestamp = Null

RECURSIVE ExecuteManyInsert(_, _, _)
ExecuteManyInsert(T, batch, k) ==
    IF k > Len(batch) THEN [rows |-> T, error |-> FALSE]
    ELSE IF RowFails(batch[k]) THEN [rows |-> T, error |-> TRUE]
    ELSE ExecuteManyInsert(InsertRow(T, batch[k]), batch, k + 1)

\* `with conn:` commits when the block ends normally and rolls back when it
\* raises.
PartialCommit(T, work) == work.rows
WithConn(T, work) == IF work.error THEN T ELSE work.rows

\* What the caller gets back.  Neither batch_insert_readings nor
\* mark_readings_as_sent has a return statement and their handler of
\* sqlite3.Error logs and falls through, so both paths hand back None; the
\* TypeError of json.dumps, raised before the try, is the one failure that
\* reaches the caller.
Returned(outcome) == IF outcome = "raised" THEN "TypeError" ELSE "None"

BatchInsertReadings(T, batch) ==
    IF ~Serializable(batch) THEN [rows |-> T, outcome |-> "raised", inserted |-> 0]
    ELSE LET work == ExecuteManyInsert(T, batch, 1)
         IN  [rows |-> WithConn(T, work),
              outcome |-> IF work.error THEN "rolled_back" ELSE "ok",
              inserted |-> Cardinality(work.rows) - Cardinality(T)]

batch_insert_readings(batch) ==
    /\ program = "db"
    /\ LET res == BatchInsertReadings(readings, batch)
       IN  /\ MaxRowId(res.rows) <= MaxId
           /\ readings' = res.rows
           /\ last' = [op |-> "insert", outcome |-> res.outcome, n |-> Len(batch),
                       returned |-> Returned(res.outcome),
                       inserted |-> res.inserted,
                       base |-> MaxRowId(readings), ever |-> everMax]
           /\ everMax' = IF MaxRowId(res.rows) > everMax THEN MaxRowId(res.rows)
                         ELSE everMax
    /\ UNCHANGED <<program, agent, mb, pubVars, cyc, storeVars, acked>>

ReadingRow(r) ==
    [id |-> r.id, timestamp |-> r.timestamp, cpu_id |-> r.cpu_id,
     data |-> JsonLoads(r.data_json)]

\* The rows deserialized before the first one whose text does not decode.
RECURSIVE DeserializeRows(_, _)
DeserializeRows(rows, k) ==
    IF k > Len(rows) \/ ~JsonValid(rows[k].data_json) THEN <<>>
    ELSE <<ReadingRow(rows[k])>> \o DeserializeRows(rows, k + 1)

SelectAllRows(T, batch_size) == SqlLimit(OrderByIdAsc(T), batch_size)
SelectUnsent(T, batch_size) == SqlLimit(OrderByIdAsc(Unsent(T)), batch_size)

\* ok = FALSE: the query raises sqlite3.Error, which is logged.
GetUnsentReadings(T, batch_size, ok) ==
    IF ok THEN DeserializeRows(SelectUnsent(T, batch_size), 1) ELSE <<>>

get_unsent_readings(batch_size, ok) ==
    /\ program = "db"
    /\ last' = [op |-> "fetch", ok |-> ok, n |-> batch_size,
                result |-> GetUnsentReadings(readings, batch_size, ok)]
    /\ UNCHANGED <<program, agent, mb, readings, everMax, pubVars, cyc, storeVars, acked>>

ToggleSentFlag(T, i) ==
    { IF r.id = i THEN [r EXCEPT !.sent_flag = 1 - r.sent_flag] ELSE r : r \in T }
UpdateAllSentFlags(T, i) == { [r EXCEPT !.sent_flag = 1] : r \in T }
\* UPDATE readings SET sent_flag = 1 WHERE id = ?
UpdateSentFlag(T, i) ==
    { IF r.id = i THEN [r EXCEPT !.sent_flag = 1] ELSE r : r \in T }

RECURSIVE ExecuteManyUpdate(_, _, _)
ExecuteManyUpdate(T, ids, k) ==
    IF k > Len(ids) THEN T
    ELSE ExecuteManyUpdate(UpdateSentFlag(T, ids[k]), ids, k + 1)

\* ok = FALSE: the transaction raises sqlite3.Error and is rolled back.
MarkReadingsAsSent(T, ids, ok) ==
    IF ids = <<>> THEN T
    ELSE WithConn(T, [rows |-> ExecuteManyUpdate(T, ids, 1), error |-> ~ok])

Range(s) == { s[k] : k \in 1..Len(s) }

mark_readings_as_sent(ids, ok) ==
    /\ program = "db"
    /\ readings' = MarkReadingsAsSent(readings, ids, ok)
    /\ last' = [op |-> "mark", ok |-> ok, n |-> Len(ids),
                returned |-> Returned(IF ok \/ ids = <<>> THEN "ok" ELSE "rolled_back"),
                already |-> \E r \in Sent(readings) : r.id \in Range(ids)]
    /\ UNCHANGED <<program, agent, mb, everMax, pubVars, cyc, storeVars, acked>>

\* DELETE FROM readings WHERE sent_flag = 1 LIMIT n: with no ORDER BY, which n
\* of the sent rows go is the engine's choice; a negative n means no limit.
DeleteAnyRows(T, n) ==
    { D \in SUBSET T : n < 0 \/ Cardinality(D) = Min(n, Cardinality(T)) }
DeleteSentLimit(T, n) ==
    { D \in SUBSET Sent(T) : n < 0 \/ Cardinality(D) = Min(n, Cardinality(Sent(T))) }

\* ok = FALSE: the DELETE raises sqlite3.Error (a locked file, or an SQLite
\* built without DELETE ... LIMIT); 0 is returned.
prune_sent_data(ok) ==
    /\ program = "db"
    /\ \E D \in DeleteSentLimit(readings, PruneLimit) :
          /\ readings' = IF ok THEN readings \ D ELSE readings
          /\ last' = [op |-> "prune", ok |-> ok,
                      ret |-> IF ok THEN Cardinality(D) ELSE 0,
                      held |-> IF last.op = "fetch" THEN Len(last.result) ELSE 0]
    /\ UNCHANGED <<program, agent, mb, everMax, pubVars, cyc, storeVars, acked>>

DbNext ==
    \/ \E batch \in Batches : batch_insert_readings(batch)
    \/ \E n \in BatchSizes, ok \in BOOLEAN : get_unsent_readings(n, ok)
    \/ \E ids \in IdLists, ok \in BOOLEAN : mark_readings_as_sent(ids, ok)
    \/ \E ok \in BOOLEAN : prune_sent_data(ok)

\* History of one publish cycle: the rows its sinks were given, the rows it
\* marked, the rows each sink acknowledged, whether a delivery attempt failed,
\* whether a flag update failed, the status the API answered with (NoResponse
\* when it has not answered), the rows whose delivery ran into a timeout and
\* the rows each sink of publish() selected.
NoResponse == 0
NoCycle == [handled |-> {}, marked |-> {}, nacked |-> FALSE, dbFailed |-> FALSE,
            ackedBy |-> <<{}, {}>>, http |-> NoResponse, timedOut |-> {},
            offered |-> <<{}, {}>>]

(***************************************************************************)
(* modules/modbus_datalogger/src/publish.py                                *)
(***************************************************************************)
Unpublished(T) == { r \in T : r.is_published = 0 }
Published(T) == { r \in T : r.is_published = 1 }

\* ORDER BY timestamp ASC LIMIT 1: a row of least timestamp; among rows of
\* equal timestamp the engine chooses.
OldestByTimestamp(T) == { r \in T : \A y \in T : r.timestamp <= y.timestamp }

\* UPDATE readings SET is_published = 1 WHERE id = ?  (ok = FALSE: sqlite3.Error)
KeepUnpublished(T, i, ok) == T
SetAllPublished(T, i, ok) == { [r EXCEPT !.is_published = 1] : r \in T }
SetPublished(T, i, ok) ==
    IF ok THEN { IF r.id = i THEN [r EXCEPT !.is_published = 1] ELSE r : r \in T }
    ELSE T

\* The statuses a sink's endpoint answers with in the model.
HttpStatuses == {200, 201, 202, 204, 500}
\* response.status_code in [200, 201, 204]
ApiAcceptsAny(status) == TRUE
ApiAccepts(status) == status \in {200, 201, 204}
\* The remote confirmed receipt: a status of the 2xx range.
Http2xx(status) == status \in 200..299

\* What the broker side of mqtt_publish can do.
MqttOutcomes == {"puback", "connect_refused", "connect_timeout", "no_puback", "exception"}

ApiSink == 1
MqttSink == 2
\* config.get("enabled", False)
SinkAlwaysEnabled(sink) == TRUE
SinkEnabled(sink) == pubCfg[sink]
EnabledSinks == { k \in {ApiSink, MqttSink} : SinkEnabled(k) }

\* database.insertReading(db_path, ts, json_data), called by the test block;
\* the rows of this table are never deleted.
insertReading(r) ==
    /\ program = "pub"
    /\ Cardinality(pubRows) < MaxId
    /\ pubRows' = pubRows \cup
          { [id |-> NextRowId(pubRows), timestamp |-> r.timestamp,
             data |-> JsonDumps(r.data), is_published |-> 0] }
    /\ UNCHANGED <<program, agent, mb, dbVars, pubCfg, pubPc, pubRow, cyc, storeVars, acked>>

\* The stored text of an unpublished row is damaged on the medium (the case
\* get_unsent_readings logs as "corrupt data from DB"): json.loads raises on it.
\* One damaged row, at the head of the queue, is enough to show what the sinks
\* do with it.
Corrupt == <<"corrupt">>

corrupt_payload(i) ==
    /\ program = "pub"
    /\ pubPc = "idle"
    /\ i \in Ids(OldestByTimestamp(Unpublished(pubRows)))
    /\ \A r \in pubRows : JsonValid(r.data)
    /\ pubRows' = { IF r.id = i THEN [r EXCEPT !.data = Corrupt] ELSE r : r \in pubRows }
    /\ UNCHANGED <<program, agent, mb, dbVars, pubCfg, pubPc, pubRow, cyc, storeVars, acked>>

\* publish(): load the configs, count the unpublished rows, return when the
\* count is 0 (ok = FALSE: a config or the count raises and results is returned).
publish(ok) ==
    /\ program = "pub"
    /\ pubPc = "idle"
    /\ cyc' = NoCycle
    /\ pubPc' = IF ok /\ Unpublished(pubRows) # {} THEN "api" ELSE "idle"
    /\ UNCHANGED <<program, agent, mb, dbVars, pubRows, pubCfg, pubRow, storeVars, acked>>

\* The head of api() / mqtt_publish(): the enabled test, the SELECT of the oldest
\* unpublished row and json.loads of its data. `sink` is skipped (returns False)
\* when disabled, when the SELECT raises (ok = FALSE) or when no row is found;
\* when json.loads raises, the sink returns False with its row undelivered.
SelectRow(sink, at, waiting, skipTo, ok) ==
    /\ program = "pub"
    /\ pubPc = at
    /\ IF SinkEnabled(sink) /\ ok /\ Unpublished(pubRows) # {}
       THEN \E r \in OldestByTimestamp(Unpublished(pubRows)) :
               /\ pubRow' = r.id
               /\ pubPc' = IF JsonValid(r.data) THEN waiting ELSE skipTo
               /\ cyc' = [cyc EXCEPT !.handled = @ \cup {r.id},
                                     !.offered[sink] = @ \cup {r.id},
                                     !.nacked = @ \/ ~JsonValid(r.data)]
       ELSE /\ pubPc' = skipTo
            /\ UNCHANGED <<pubRow, cyc>>
    /\ UNCHANGED <<program, agent, mb, dbVars, pubRows, pubCfg, storeVars, acked>>

api_select(ok) == SelectRow(ApiSink, "api", "api_post", "mqtt", ok)

\* requests.post returned `status`; on an accepted status the row is marked
\* (dbOk = FALSE: the UPDATE raises sqlite3.Error and api returns False).
api_response(status, dbOk) ==
    /\ program = "pub"
    /\ pubPc = "api_post"
    /\ acked' = IF Http2xx(status) THEN acked \cup {pubRow} ELSE acked
    /\ IF ApiAccepts(status)
       THEN /\ pubRows' = SetPublished(pubRows, pubRow, dbOk)
            /\ cyc' = [cyc EXCEPT !.ackedBy[ApiSink] = @ \cup {pubRow},
                                  !.marked = IF dbOk THEN @ \cup {pubRow} ELSE @,
                                  !.dbFailed = @ \/ ~dbOk,
                                  !.http = status]
       ELSE /\ pubRows' = pubRows
            /\ cyc' = [cyc EXCEPT !.nacked = TRUE, !.http = status]
    /\ pubPc' = "mqtt"
    /\ pubRow' = 0
    /\ UNCHANGED <<program, agent, mb, dbVars, pubCfg, storeVars>>

\* requests.post raised Timeout (timeout_seconds went by) or another
\* RequestException (the connection failed).
RequestExceptions == {"Timeout", "ConnectionError"}

api_request_failed(exc) ==
    /\ program = "pub"
    /\ pubPc = "api_post"
    /\ cyc' = [cyc EXCEPT !.nacked = TRUE,
                          !.timedOut = IF exc = "Timeout" THEN @ \cup {pubRow} ELSE @]
    /\ pubPc' = "mqtt"
    /\ pubRow' = 0
    /\ UNCHANGED <<program, agent, mb, dbVars, pubRows, pubCfg, storeVars, acked>>

mqtt_select(ok) == SelectRow(MqttSink, "mqtt", "mqtt_wait", "idle", ok)

\* connect, the wait for on_connect (50 x 0.1 s), publish with qos=1 and the
\* wait for on_publish (50 x 0.1 s); the row is marked when `published` was set.
MqttPublished(outcome) == outcome = "puback"
MqttTimedOut(outcome) == outcome \in {"connect_timeout", "no_puback"}

mqtt_outcome(outcome, dbOk) ==
    /\ program = "pub"
    /\ pubPc = "mqtt_wait"
    /\ acked' = IF outcome = "puback" THEN acked \cup {pubRow} ELSE acked
    /\ IF MqttPublished(outcome)
       THEN /\ pubRows' = SetPublished(pubRows, pubRow, dbOk)
            /\ cyc' = [cyc EXCEPT !.ackedBy[MqttSink] = @ \cup {pubRow},
                                  !.marked = IF dbOk THEN @ \cup {pubRow} ELSE @,
                                  !.dbFailed = @ \/ ~dbOk]
       ELSE /\ pubRows' = pubRows
            /\ cyc' = [cyc EXCEPT !.nacked = TRUE,
                                  !.timedOut = IF MqttTimedOut(outcome)
                                               THEN @ \cup {pubRow} ELSE @]
    /\ pubPc' = "idle"
    /\ pubRow' = 0
    /\ UNCHANGED <<program, agent, mb, dbVars, pubCfg, storeVars>>

PubNext ==
    \/ \E r \in GoodReadings : insertReading(r)
    \/ \E i \in 1..MaxId : corrupt_payload(i)
    \/ \E ok \in BOOLEAN : publish(ok)
    \/ \E ok \in BOOLEAN : api_select(ok)
    \/ \E status \in HttpStatuses, dbOk \in BOOLEAN : api_response(status, dbOk)
    \/ \E exc \in RequestExceptions : api_request_failed(exc)
    \/ \E ok \in BOOLEAN : mqtt_select(ok)
    \/ \E outcome \in MqttOutcomes, dbOk \in BOOLEAN : mqtt_outcome(outcome, dbOk)

(***************************************************************************)
(* datalogger/store.py, datalogger/publish.py, datalogger/main.py          *)
(***************************************************************************)
\* Free space as disk_usage can report it: nearly none, some, ample.
FreeLevels == {0, 1, 2}
\* The low-water mark of free space below which collection is to be suppressed.
SoftThresholdGb == 1

\* str(data_dict) as stored, and eval of the stored text.
StrOf(d) == <<"repr", d>>
EvalOf(s) == s[2]

StoreUnpublished(T) == { r \in T : r.published = 0 }
StorePublished(T) == { r \in T : r.published = 1 }

\* id INTEGER PRIMARY KEY AUTOINCREMENT: one more than the largest id the table
\* ever held (sqlite_sequence), never a reused one.
AutoIncrement(T, seq) == (IF MaxRowId(T) > seq THEN MaxRowId(T) ELSE seq) + 1

\* INSERT INTO readings (timestamp, modbus_data) VALUES (time.time(), str(data))
SaveReading(T, seq, now, data) ==
    T \cup { [id |-> AutoIncrement(T, seq), timestamp |-> now,
              modbus_data |-> StrOf(data), published |-> 0] }

\* __main__: store.init_db() runs first, outside any try.  ok = FALSE:
\* sqlite3.connect or the CREATE TABLE raises, the exception ends the process
\* before a job is scheduled or called.  Otherwise the table exists (CREATE
\* TABLE IF NOT EXISTS keeps its rows) and the jobs are scheduled, called once
\* and then run by run_scheduler.
StartedAnyway == TRUE
Started == agent = "running"

init_db(ok) ==
    /\ program = "store"
    /\ agent = "boot"
    /\ agent' = IF ok THEN "running" ELSE "failed"
    /\ UNCHANGED <<program, mb, dbVars, pubVars, cyc, storeVars, acked>>

\* run_scheduler: schedule.run_pending() calls the due jobs one after another
\* in the thread of the loop; a job starts only when that thread is not inside
\* another job.
SchedulerAlwaysFree == TRUE
SchedulerFree == storePc = "idle"

\* job_collect: read_data() then save_reading(data); an exception of either
\* (fetchOk = FALSE, dbOk = FALSE) is printed and the tick ends; save_reading's
\* `with get_connection() as conn:` rolls the INSERT back when it raises.
\* `now` is time.time(), which may step backwards.
job_collect(r, fetchOk, dbOk) ==
    /\ program = "store"
    /\ Started
    /\ SchedulerFree
    /\ storeSeq < MaxId
    /\ storeRows' =
          IF fetchOk
          THEN WithConn(storeRows,
                        [rows |-> SaveReading(storeRows, storeSeq, r.timestamp, r.data),
                         error |-> ~dbOk])
          ELSE storeRows
    /\ storeSeq' = IF MaxRowId(storeRows') > storeSeq THEN MaxRowId(storeRows')
                   ELSE storeSeq
    /\ tick' = [job |-> "collect", appended |-> fetchOk /\ dbOk,
                low |-> freeGb < SoftThresholdGb]
    /\ UNCHANGED <<program, agent, mb, dbVars, pubVars, cyc, storePc, drained, idx, publishedIds,
                   freeGb, acked>>

\* The volume fills up or is freed (what shutil.disk_usage would report).
disk_usage(free) ==
    /\ program = "store"
    /\ freeGb' = free
    /\ free # freeGb
    /\ UNCHANGED <<program, agent, mb, dbVars, pubVars, cyc, storeRows, storeSeq, storePc, drained,
                   idx, publishedIds, tick, acked>>

\* SELECT * FROM readings WHERE published = 0 ORDER BY timestamp ASC LIMIT ?:
\* every ordering of the unpublished rows by timestamp (rows of equal timestamp
\* in the engine's order), cut to the limit.
OrderedByTimestamp(T) ==
    { s \in [1..Cardinality(T) -> T] :
        /\ \A i, j \in 1..Cardinality(T) : i < j =>
              s[i] # s[j] /\ s[i].timestamp <= s[j].timestamp }
GetUnpublishedReadings(T, limit) ==
    { SqlLimit(s, limit) : s \in OrderedByTimestamp(StoreUnpublished(T)) }

Rows(s) == { s[k].id : k \in 1..Len(s) }

\* job_publish -> publish_pending: the drain.  ok = FALSE: the query raises,
\* job_publish prints the error.  An empty drain returns at once.
\* `if not readings: return`
AlwaysSomething(rows) == FALSE
NothingToPublish(rows) == rows = <<>>

publish_pending(ok) ==
    /\ program = "store"
    /\ Started
    /\ SchedulerFree
    /\ \E rows \in GetUnpublishedReadings(storeRows, PublishLimit) :
          /\ drained' = IF ok THEN rows ELSE <<>>
          /\ storePc' = IF ok /\ ~NothingToPublish(rows) THEN "connect" ELSE "idle"
          /\ cyc' = [NoCycle EXCEPT !.handled = IF ok THEN Rows(rows) ELSE {}]
    /\ idx' = 0
    /\ publishedIds' = <<>>
    /\ tick' = [job |-> "publish"]
    /\ UNCHANGED <<program, agent, mb, dbVars, pubRows, pubCfg, pubPc, pubRow, storeRows,
                   storeSeq, freeGb, acked>>

\* client.connect(...) and loop_start(); ok = FALSE: connect raises, "Publish
\* failed" is printed and nothing is marked.
mqtt_connect(ok) ==
    /\ program = "store"
    /\ storePc = "connect"
    /\ storePc' = IF ok THEN "loop" ELSE "idle"
    /\ drained' = IF ok THEN drained ELSE <<>>
    /\ cyc' = IF ok THEN cyc ELSE [cyc EXCEPT !.nacked = TRUE]
    /\ UNCHANGED <<program, agent, mb, dbVars, pubRows, pubCfg, pubPc, pubRow, storeRows,
                   storeSeq, idx, publishedIds, freeGb, tick, acked>>

\* One turn of `for row in readings`: publish with qos=1, wait_for_publish(),
\* is_published().  "raise": eval, publish or wait_for_publish raises and the
\* except clause ends the cycle with nothing marked.  The step is the return of
\* wait_for_publish(), which is called without a timeout: it returns when the
\* broker's PUBACK arrives, and not before.
PublishOutcomes == {"published", "not_published", "raise"}

publish_row(outcome) ==
    /\ program = "store"
    /\ storePc = "loop"
    /\ idx < Len(drained)
    /\ LET row == drained[idx + 1]
       IN  /\ publishedIds' = IF outcome = "published"
                              THEN Append(publishedIds, row.id)
                              ELSE IF outcome = "raise" THEN <<>> ELSE publishedIds
           /\ acked' = IF outcome = "published" THEN acked \cup {row.id} ELSE acked
           /\ cyc' = IF outcome = "published"
                     THEN [cyc EXCEPT !.ackedBy[MqttSink] = @ \cup {row.id}]
                     ELSE [cyc EXCEPT !.nacked = TRUE]
    /\ idx' = IF outcome = "raise" THEN 0 ELSE idx + 1
    /\ drained' = IF outcome = "raise" THEN <<>> ELSE drained
    /\ storePc' = IF outcome = "raise" THEN "idle" ELSE "loop"
    /\ UNCHANGED <<program, agent, mb, dbVars, pubRows, pubCfg, pubPc, pubRow, storeRows,
                   storeSeq, freeGb, tick>>

\* UPDATE readings SET published = 1 WHERE id IN (...)
MarkFirstAsPublished(T, ids, ok) ==
    IF ids = <<>> \/ ~ok THEN T
    ELSE { IF r.id = ids[1] THEN [r EXCEPT !.published = 1] ELSE r : r \in T }
MarkAsPublished(T, ids, ok) ==
    IF ids = <<>> \/ ~ok THEN T
    ELSE { IF r.id \in Range(ids) THEN [r EXCEPT !.published = 1] ELSE r : r \in T }

\* After the loop: loop_stop(), disconnect() and, when published_ids is not
\* empty, mark_as_published (ok = FALSE: it raises, "Publish failed").
mark_as_published(ok) ==
    /\ program = "store"
    /\ storePc = "loop"
    /\ idx = Len(drained)
    /\ storeRows' = MarkAsPublished(storeRows, publishedIds, ok)
    /\ cyc' = [cyc EXCEPT !.marked = IF ok THEN Range(publishedIds) ELSE {},
                          !.dbFailed = publishedIds # <<>> /\ ~ok]
    /\ storePc' = "idle"
    /\ drained' = <<>>
    /\ idx' = 0
    /\ publishedIds' = <<>>
    /\ UNCHANGED <<program, agent, mb, dbVars, pubRows, pubCfg, pubPc, pubRow, storeSeq,
                   freeGb, tick, acked>>

StoreNext ==
    \/ \E ok \in BOOLEAN : init_db(ok)
    \/ \E r \in GoodReadings, fetchOk \in BOOLEAN, dbOk \in BOOLEAN :
          job_collect(r, fetchOk, dbOk)
    \/ \E free \in FreeLevels : disk_usage(free)
    \/ \E ok \in BOOLEAN : publish_pending(ok)
    \/ \E ok \in BOOLEAN : mqtt_connect(ok)
    \/ \E outcome \in PublishOutcomes : publish_row(outcome)
    \/ \E ok \in BOOLEAN : mark_as_published(ok)

(***************************************************************************)
(* modules/modbus_datalogger/src/modbus.py                                 *)
(***************************************************************************)
\* config.holding_registers and config.input_registers (None or a list).
HoldingRegisters == { <<>>, <<"h1">>, <<"h1", "h2">> }
InputRegisters == { <<>>, <<"i1">> }

\* What read_modbus_data hands back: None, or the dict of the values read.
None == <<"None", {}>>
NoRead == [pc |-> "idle", is_open |-> FALSE, regs |-> <<>>, results |-> {},
           ret |-> <<"unset", {}>>, why |-> "none", readFailed |-> FALSE]

\* finally: if client.is_open: client.close()
LeaveOpen(open) == open
CloseIfOpen(open) == IF open THEN FALSE ELSE open

\* read_modbus_data up to the first read: client.connect() returns True,
\* returns False ("Failed to connect", return None) or raises
\* (ConnectionException or another Exception, return None).  What a failed
\* connect leaves of the port (`open`) is the library's business; the finally
\* block runs on each of the returns.
ConnectOutcomes == {"True", "False", "ConnectionException", "Exception"}

connect(holding, input, outcome, open) ==
    /\ program = "modbus"
    /\ mb.pc \in {"idle", "returned"}
    /\ mb' = IF outcome = "True"
             THEN [NoRead EXCEPT !.pc = "reading", !.is_open = TRUE,
                                 !.regs = holding \o input]
             ELSE [NoRead EXCEPT !.pc = "returned", !.is_open = CloseIfOpen(open),
                                 !.ret = None,
                                 !.why = IF outcome = "False" THEN "connect_false"
                                         ELSE "connect_raised"]
    /\ UNCHANGED <<program, agent, dbVars, pubVars, cyc, storeVars, acked>>

\* _read_register_group, one register: the read returns a value that is
\* stored, returns an error response or raises ModbusIOException (logged as a
\* warning), decodes to None (unsupported dtype, nothing stored), or raises
\* anything else, a ConnectionException of a lost line included (caught by the
\* inner `except Exception`); the loop goes on in every case.
RegisterOutcomes == {"value", "isError", "ModbusIOException", "unsupported",
                     "ConnectionException"}

read_register(outcome, open) ==
    /\ program = "modbus"
    /\ mb.pc = "reading"
    /\ mb.regs # <<>>
    /\ mb' = [mb EXCEPT !.regs = Tail(@),
                        !.results = IF outcome = "value" THEN @ \cup {Head(mb.regs)}
                                    ELSE @,
                        !.readFailed = @ \/ outcome # "value",
                        !.is_open = IF outcome = "ConnectionException" THEN open ELSE @]
    /\ UNCHANGED <<program, agent, dbVars, pubVars, cyc, storeVars, acked>>

\* An exception raised outside the per-register try (the register list cannot
\* be iterated, say) escapes _read_register_group and is caught by the handlers
\* of read_modbus_data: return None, then the finally block.
read_escapes ==
    /\ program = "modbus"
    /\ mb.pc = "reading"
    /\ mb.regs # <<>>
    /\ mb' = [mb EXCEPT !.pc = "returned", !.ret = None, !.why = "escaped",
                        !.regs = <<>>, !.is_open = CloseIfOpen(@)]
    /\ UNCHANGED <<program, agent, dbVars, pubVars, cyc, storeVars, acked>>

\* return results, then the finally block.
return_results ==
    /\ program = "modbus"
    /\ mb.pc = "reading"
    /\ mb.regs = <<>>
    /\ mb' = [mb EXCEPT !.pc = "returned", !.ret = <<"dict", mb.results>>,
                        !.why = "done", !.is_open = CloseIfOpen(@)]
    /\ UNCHANGED <<program, agent, dbVars, pubVars, cyc, storeVars, acked>>

ModbusNext ==
    \/ \E holding \in HoldingRegisters, input \in InputRegisters,
          outcome \in ConnectOutcomes, open \in BOOLEAN :
          connect(holding, input, outcome, open)
    \/ \E outcome \in RegisterOutcomes, open \in BOOLEAN : read_register(outcome, open)
    \/ read_escapes
    \/ return_results

(***************************************************************************)
(* Initial state and specification.                                        *)
(***************************************************************************)
Init ==
    /\ program \in {"db", "pub", "store", "modbus"}
    /\ readings = {}
    /\ last = [op |-> "init"]
    /\ everMax = 0
    /\ pubRows = {}
    /\ pubCfg \in IF program = "pub" THEN [1..2 -> BOOLEAN] ELSE {<<FALSE, FALSE>>}
    /\ pubPc = "idle"
    /\ pubRow = 0
    /\ cyc = NoCycle
    /\ storeRows = {}
    /\ storeSeq = 0
    /\ storePc = "idle"
    /\ drained = <<>>
    /\ idx = 0
    /\ publishedIds = <<>>
    /\ freeGb = 2
    /\ tick = [job |-> "none"]
    /\ acked = {}
    /\ agent = IF program = "store" THEN "boot" ELSE "running"
    /\ mb = NoRead

Next == DbNext \/ PubNext \/ StoreNext \/ ModbusNext

Spec == Init /\ [][Next]_vars

\* What the code's scheduling guarantees.  Every call that carries its own
\* bound comes back: requests.post (timeout_seconds), the two 50 x 0.1 s waits
\* of mqtt_publish, client.connect (socket timeout), the SQLite calls.  The
\* return of wait_for_publish() in publish_pending is in the broker's hands
\* and carries no such guarantee.
Fairness ==
    /\ WF_vars(\E ok \in BOOLEAN : api_select(ok))
    /\ WF_vars(\/ \E status \in HttpStatuses, dbOk \in BOOLEAN : api_response(status, dbOk)
               \/ \E exc \in RequestExceptions : api_request_failed(exc))
    /\ WF_vars(\E ok \in BOOLEAN : mqtt_select(ok))
    /\ WF_vars(\E outcome \in MqttOutcomes, dbOk \in BOOLEAN : mqtt_outcome(outcome, dbOk))
    /\ WF_vars(\E ok \in BOOLEAN : mqtt_connect(ok))
    /\ WF_vars(\E ok \in BOOLEAN : mark_as_published(ok))

FairSpec == Spec /\ Fairness

\* Fair scheduling of the publisher with sinks that keep acking: publish() is
\* called again and again, a sink that is asked again and again finds its row,
\* the endpoint answers 200 and the broker acknowledges, and the UPDATE that
\* follows succeeds.
AckingSinks ==
    /\ WF_vars(publish(TRUE))
    /\ SF_vars(api_select(TRUE))
    /\ SF_vars(api_response(200, TRUE))
    /\ SF_vars(mqtt_select(TRUE))
    /\ SF_vars(mqtt_outcome("puback", TRUE))

FairAckSpec == Spec /\ Fairness /\ AckingSinks
(***************************************************************************)
(* Properties.                                                             *)
(***************************************************************************)
SentIds ==
    IF program = "pub" THEN Ids(Published(pubRows))
    ELSE IF program = "store" THEN Ids(StorePublished(storeRows))
    ELSE Ids(Sent(readings))

CycleOver ==
    \/ program = "pub" /\ pubPc = "idle"
    \/ program = "store" /\ storePc = "idle"

\* C1: in a publish cycle a reading is marked Sent only if every enabled sink
\* acknowledged a delivery of that reading in the cycle, and a cycle in which a
\* sink nacked marks no reading Sent.
C1_SentOnlyIfEverySinkAcked ==
    program = "pub" =>
        /\ \A i \in cyc.marked : \A k \in EnabledSinks : i \in cyc.ackedBy[k]
        /\ cyc.nacked => cyc.marked = {}

\* What every result of get_unsent_readings satisfies: at most batch_size
\* rows, every one an unsent row of the table (deserialized), in strictly
\* ascending id order, and no unsent row left out has a smaller id than a
\* returned one.
FetchIsOrderedUnsentPrefix ==
    LET res == last.result
        got == { res[k].id : k \in 1..Len(res) }
    IN  /\ Len(res) <= last.n
        /\ \A k \in 1..Len(res) :
              \E r \in Unsent(readings) : res[k] = ReadingRow(r)
        /\ \A j, k \in 1..Len(res) : j < k => res[j].id < res[k].id
        /\ \A r \in Unsent(readings) :
              r.id \notin got => \A i \in got : i < r.id
        /\ Unsent(readings) = {} => res = <<>>

\* C2 as stated: get_unsent_readings(batch_size) returns at most batch_size
\* rows, all unsent, in strictly ascending id order, and they are the
\* batch_size smallest-id unsent rows (min(batch_size, number of unsent rows)
\* of them); the result is empty when there is no unsent row.
C2_FetchUnsentSmallest ==
    (program = "db" /\ last.op = "fetch") =>
        /\ FetchIsOrderedUnsentPrefix
        /\ Len(last.result) = Min(last.n, Cardinality(Unsent(readings)))

\* C2 as amended: the same, with the number of rows returned stated for a
\* query that does not raise; a query that raises sqlite3.Error returns the
\* empty list.
C2_FetchUnsentOrdered ==
    (program = "db" /\ last.op = "fetch") =>
        /\ FetchIsOrderedUnsentPrefix
        /\ last.ok => Len(last.result) = Min(last.n, Cardinality(Unsent(readings)))
        /\ ~last.ok => last.result = <<>>

C2_Witness ==
    /\ program = "db" /\ last.op = "fetch" /\ last.ok
    /\ last.n >= 1
    /\ Len(last.result) = last.n
    /\ Cardinality(Unsent(readings)) > last.n
    /\ \E s \in Sent(readings) : \E u \in Unsent(readings) : s.id < u.id

\* C3: marking twice with the same ids gives the table that marking once
\* gives, and a call that raises leaves the table it found (so two calls of
\* which either raises give the table of one call or of none); marking ids
\* that are all Sent already (or absent) changes nothing.  (Every table the
\* store program reaches is there in a state between two jobs.)
C3_MarkSentIdempotent ==
    /\ program = "db" =>
          \A ids \in IdLists :
              LET once == MarkReadingsAsSent(readings, ids, TRUE)
              IN  /\ MarkReadingsAsSent(once, ids, TRUE) = once
                  /\ MarkReadingsAsSent(once, ids, FALSE) = once
                  /\ MarkReadingsAsSent(readings, ids, FALSE) = readings
                  /\ Range(ids) \cap Ids(Unsent(readings)) = {} => once = readings
    /\ (program = "store" /\ storePc = "idle") =>
          \A ids \in IdLists :
              LET onceP == MarkAsPublished(storeRows, ids, TRUE)
              IN  /\ MarkAsPublished(onceP, ids, TRUE) = onceP
                  /\ MarkAsPublished(onceP, ids, FALSE) = onceP
                  /\ MarkAsPublished(storeRows, ids, FALSE) = storeRows
                  /\ Range(ids) \cap Ids(StoreUnpublished(storeRows)) = {}
                        => onceP = storeRows

C3_Witness ==
    /\ program = "db" /\ last.op = "mark" /\ last.ok /\ last.already
    /\ last.n = MaxBatch

\* C4: no step of any program takes a row from Sent back to Unsent.
C4_SentNeverReverts ==
    [][ /\ \A r \in readings : \A q \in readings' :
              (q.id = r.id /\ r.sent_flag = 1) => q.sent_flag = 1
        /\ \A r \in pubRows : \A q \in pubRows' :
              (q.id = r.id /\ r.is_published = 1) => q.is_published = 1
        /\ \A r \in storeRows : \A q \in storeRows' :
              (q.id = r.id /\ r.published = 1) => q.published = 1 ]_vars

C4_Witness ==
    /\ program = "store"
    /\ tick.job = "collect" /\ tick.appended
    /\ StorePublished(storeRows) # {}
    /\ StoreUnpublished(storeRows) # {}

\* C5: a row is marked Sent only after a sink acknowledged a delivery of it.
C5_SentOnlyAfterAck ==
    /\ program = "pub" => \A r \in Published(pubRows) : r.id \in acked
    /\ program = "store" => \A r \in StorePublished(storeRows) : r.id \in acked

C5_Witness ==
    /\ program = "pub"
    /\ Published(pubRows) # {}
    /\ \E i \in acked : i \in Ids(Unpublished(pubRows))
    /\ cyc.nacked

C7_IdsNeverReused ==
    (program = "db" /\ last.op = "insert" /\ last.outcome = "ok" /\ last.n > 0) =>
        last.base + 1 > last.ever

C9_AppendAtomic ==
    program = "db" =>
        \A batch \in Batches :
            LET res == BatchInsertReadings(readings, batch)
                base == MaxRowId(readings)
            IN  \/ res.outcome # "ok" /\ res.rows = readings
                \/ /\ res.outcome = "ok"
                   /\ readings \subseteq res.rows
                   /\ Ids(res.rows \ readings) = (base + 1)..(base + Len(batch))
                   /\ Cardinality(res.rows \ readings) = Len(batch)
                   /\ \A k \in 1..Len(batch) :
                         LET r == RowOf(res.rows, base + k)
                         IN  /\ r.timestamp = batch[k].timestamp
                             /\ JsonLoads(r.data_json) = batch[k].data
                             /\ r.sent_flag = 0

C9_Witness ==
    /\ program = "db" /\ last.op = "insert"
    /\ last.outcome = "rolled_back"
    /\ last.inserted >= 1
    /\ readings # {}

\* C10: a Collector tick that runs while free space is below the soft threshold
\* appends nothing.
C10_NoAppendWhenSpaceLow ==
    (program = "store" /\ tick.job = "collect" /\ tick.low) => ~tick.appended

HttpOnly == pubCfg = <<TRUE, FALSE>>

C12_Http500ChangesNothing ==
    /\ [][ (program = "pub" /\ ~pubCfg[MqttSink] /\ cyc'.http \in {NoResponse, 500})
           => /\ Published(pubRows') = Published(pubRows)
              /\ \A r \in Unpublished(pubRows) :
                    r \in pubRows' \/ [r EXCEPT !.data = Corrupt] \in pubRows'
              /\ cyc'.marked = {} ]_vars
    /\ []( (program = "pub" /\ ~pubCfg[MqttSink] /\ pubPc = "idle" /\ cyc.http = 500)
           => cyc.nacked /\ cyc.handled # {} /\ cyc.handled \cap SentIds = {} )

C12_Witness ==
    /\ program = "pub" /\ HttpOnly /\ pubPc = "idle"
    /\ cyc.http = 500
    /\ Cardinality(pubRows) = 2
    /\ Cardinality(Unpublished(pubRows)) = 2

C14_DisabledSinkSkipped ==
    /\ [][ (program = "pub" /\ pubPc = "api" /\ ~pubCfg[ApiSink] /\ pubPc' # "api")
           => /\ pubPc' = "mqtt"
              /\ pubRows' = pubRows /\ pubRow' = pubRow
              /\ cyc' = cyc /\ acked' = acked ]_vars
    /\ [][ (program = "pub" /\ pubPc = "mqtt" /\ ~pubCfg[MqttSink] /\ pubPc' # "mqtt")
           => /\ pubPc' = "idle"
              /\ pubRows' = pubRows /\ pubRow' = pubRow
              /\ cyc' = cyc /\ acked' = acked ]_vars
    /\ []( program = "pub" =>
              /\ pubPc = "api_post" => pubCfg[ApiSink]
              /\ pubPc = "mqtt_wait" => pubCfg[MqttSink]
              /\ \A k \in {ApiSink, MqttSink} : ~pubCfg[k] => cyc.ackedBy[k] = {}
              /\ ~cyc.dbFailed =>
                    \A k \in {ApiSink, MqttSink} : cyc.ackedBy[k] \subseteq cyc.marked )

C14_Witness ==
    /\ program = "pub" /\ pubPc = "idle"
    /\ pubCfg = <<FALSE, TRUE>>
    /\ cyc.ackedBy[ApiSink] = {}
    /\ cyc.marked # {} /\ cyc.marked \subseteq SentIds

\* C15: whatever a Publisher cycle does, the scheduler thread comes back to
\* where the Collector's next tick can start.
C15_CollectorKeepsRunning ==
    [](program = "store" => <>SchedulerFree)

\* C16: a row whose delivery attempt ran into a timeout is not marked
\* published in that cycle.
C16_TimedOutRowNotMarked ==
    program = "pub" => cyc.timedOut \cap cyc.marked = {}

\* C17: every Publisher cycle that has started returns.
C17_CycleTerminates ==
    (program \in {"pub", "store"} /\ ~CycleOver) ~> CycleOver

\* C18: a Collector tick on which read_data or save_reading raises leaves the
\* table and its id sequence as they were (no row, no partial row, no second
\* INSERT); when a tick has returned the scheduler is free for the next one,
\* whose append then adds exactly one new row.
C18_FailedTickAppendsNothing ==
    /\ [][ (program = "store" /\ tick'.job = "collect" /\ ~tick'.appended)
           => storeRows' = storeRows /\ storeSeq' = storeSeq ]_vars
    /\ []( (program = "store" /\ tick.job = "collect") =>
              /\ SchedulerFree
              /\ \A r \in storeRows :
                    /\ r.id \in 1..storeSeq
                    /\ \E g \in GoodReadings :
                          r.timestamp = g.timestamp /\ EvalOf(r.modbus_data) = g.data
              /\ \A g \in GoodReadings :
                    LET T == SaveReading(storeRows, storeSeq, g.timestamp, g.data)
                    IN  storeRows \subseteq T /\ Cardinality(T) = Cardinality(storeRows) + 1 )

C18_Witness ==
    /\ program = "store"
    /\ tick.job = "collect" /\ ~tick.appended
    /\ storeRows # {}
    /\ storeSeq < MaxId

\* C19: while a Publisher cycle is in progress no job starts (the last job
\* started stays that cycle, nothing is collected) and the cycle's own batch is
\* not drained again; outside a cycle no batch is held.
C19_SingleFlight ==
    /\ [][ (program = "store" /\ storePc # "idle")
           => /\ tick' = tick
              /\ Ids(storeRows') = Ids(storeRows)
              /\ storePc' = "idle" \/ (drained' = drained /\ idx' >= idx) ]_vars
    /\ []( program = "store" =>
              /\ storePc # "idle" => tick.job = "publish"
              /\ storePc = "idle" => drained = <<>> /\ idx = 0 /\ publishedIds = <<>> )

C19_Witness ==
    /\ program = "store" /\ storePc = "loop"
    /\ tick.job = "publish"
    /\ Len(drained) >= 2 /\ idx >= 1

C21_MarkSentFrame ==
    [](/\ program = "db" =>
             \A ids \in IdLists, ok \in BOOLEAN :
                 LET T == MarkReadingsAsSent(readings, ids, ok)
                 IN  /\ Ids(T) = Ids(readings)
                     /\ Cardinality(T) = Cardinality(readings)
                     /\ ids = <<>> => T = readings
                     /\ \A r \in readings :
                           LET q == RowOf(T, r.id)
                           IN  /\ q.timestamp = r.timestamp
                               /\ q.cpu_id = r.cpu_id
                               /\ q.data_json = r.data_json
                               /\ q.sent_flag = IF r.id \in Range(ids) /\ ok
                                                THEN 1 ELSE r.sent_flag
       /\ (program = "store" /\ storePc = "idle") =>
             \A ids \in IdLists, ok \in BOOLEAN :
                 LET T == MarkAsPublished(storeRows, ids, ok)
                 IN  /\ Ids(T) = Ids(storeRows)
                     /\ Cardinality(T) = Cardinality(storeRows)
                     /\ ids = <<>> => T = storeRows
                     /\ \A r \in storeRows :
                           LET q == RowOf(T, r.id)
                           IN  /\ q.timestamp = r.timestamp
                               /\ q.modbus_data = r.modbus_data
                               /\ q.published = IF r.id \in Range(ids) /\ ok
                                                THEN 1 ELSE r.published)

C21_Witness ==
    /\ program = "db" /\ last.op = "mark" /\ last.ok /\ ~last.already
    /\ last.n >= 1
    /\ Sent(readings) # {}
    /\ Unsent(readings) # {}

\* C22: in a cycle of publish() with both sinks enabled, a reading the API
\* sink delivered (acknowledged and marked) is a reading the MQTT sink, which
\* comes after it, was offered too.
C22_SinksOfferedSameReadings ==
    (program = "pub" /\ pubPc = "idle" /\ pubCfg = <<TRUE, TRUE>>)
        => (cyc.ackedBy[ApiSink] \cap cyc.marked) \subseteq cyc.offered[MqttSink]

\* C23: once a sink has returned a Nack in a cycle of publish(), no later sink
\* is attempted in that cycle.
C23_NoAttemptAfterNack ==
    (program = "pub" /\ pubPc = "mqtt_wait") => ~cyc.nacked

\* C24: with the publisher scheduled fairly and the enabled sinks acking, a
\* reading that is stored unpublished with a readable payload is eventually
\* marked published: no other unpublished row keeps it waiting forever.
C24_EventualDelivery ==
    \A i \in 1..MaxId :
        (/\ program = "pub"
         /\ EnabledSinks # {}
         /\ \E r \in Unpublished(pubRows) : r.id = i /\ JsonValid(r.data))
            ~> (\E r \in pubRows : r.id = i /\ (r.is_published = 1 \/ ~JsonValid(r.data)))

\* C25: unpublished rows are replayed in ascending id order even when their
\* timestamps are not monotone in insertion order: of two rows of different
\* timestamps in the batch get_unpublished_readings returns, the one of smaller
\* id comes first, and the row api / mqtt_publish picks has a smaller id than
\* every unpublished row of another timestamp.
C25_DrainInIdOrder ==
    /\ program = "store" =>
          \A i, j \in 1..Len(drained) :
              (i < j /\ drained[i].timestamp # drained[j].timestamp)
                  => drained[i].id < drained[j].id
    /\ (program = "pub" /\ pubPc \in {"api_post", "mqtt_wait"}) =>
          \A r, h \in Unpublished(pubRows) :
              (h.id = pubRow /\ r.timestamp # h.timestamp) => h.id < r.id

\* C26: a publish cycle whose drain finds no unpublished reading contacts no
\* sink and changes no row: the cycle is past its drain only when there was a
\* row to publish, and a tick that starts with no unpublished row leaves the
\* publisher idle, every stored row as it was and no reading acknowledged.
C26_EmptyDrainContactsNoSink ==
    /\ []((program = "store" /\ storePc # "idle") => ~NothingToPublish(drained))
    /\ []((program = "pub" /\ pubPc # "idle")
             => (cyc.handled # {} \/ Unpublished(pubRows) # {}))
    /\ [][(program = "store" /\ storePc = "idle" /\ tick'.job = "publish"
             /\ StoreUnpublished(storeRows) = {})
            => (storePc' = "idle" /\ storeRows' = storeRows /\ acked' = acked)]_vars
    /\ [][(program = "pub" /\ pubPc = "idle" /\ Unpublished(pubRows) = {})
            => (pubPc' = "idle" /\ pubRows \subseteq pubRows' /\ acked' = acked)]_vars

\* A publish tick of the scheduler has just found every stored reading
\* published already.
C26_Witness ==
    /\ program = "store"
    /\ tick.job = "publish"
    /\ storePc = "idle"
    /\ cyc = NoCycle
    /\ storeRows # {}
    /\ StoreUnpublished(storeRows) = {}

\* C27: in publish_pending the ids handed to mark_as_published are exactly the
\* rows of the drained batch whose publish the broker confirmed, and the rows
\* it marks are those ids or, when its UPDATE raises, none; a cycle that ends
\* on an exception before the loop is over (in connect or inside the loop)
\* marks no row, the confirmed ones included, and every drain that follows
\* returns the whole batch again.
C27_MarksConfirmedOrNothing ==
    /\ []((program = "store" /\ storePc = "loop") =>
             /\ Range(publishedIds) = cyc.ackedBy[MqttSink]
             /\ Range(publishedIds) \subseteq { drained[k].id : k \in 1..idx })
    /\ [][(program = "store" /\ storePc = "loop" /\ storePc' = "idle"
             /\ idx = Len(drained))
            => /\ Ids(StorePublished(storeRows')) \ Ids(StorePublished(storeRows))
                    \in {{}, cyc.ackedBy[MqttSink]}
               /\ cyc'.marked
                    = Ids(StorePublished(storeRows')) \ Ids(StorePublished(storeRows))
               /\ (~cyc'.dbFailed => cyc'.marked = cyc.ackedBy[MqttSink])]_vars
    /\ [][(program = "store" /\ storePc \in {"connect", "loop"} /\ storePc' = "idle"
             /\ idx < Len(drained))
            => /\ storeRows' = storeRows
               /\ cyc'.marked = {}
               /\ \A batch \in GetUnpublishedReadings(storeRows', PublishLimit) :
                     Rows(drained) \subseteq Rows(batch)]_vars

\* A cycle ended on an exception after the broker had confirmed a row: the
\* scheduler is idle again, nothing is marked and the UPDATE was never tried.
C27_Witness ==
    /\ program = "store"
    /\ storePc = "idle"
    /\ cyc.ackedBy[MqttSink] # {}
    /\ cyc.marked = {}
    /\ ~cyc.dbFailed
    /\ cyc.handled \cap SentIds = {}
    /\ Cardinality(cyc.handled) >= 2

\* C28: the rows a publish cycle marks are rows that cycle drained, whatever
\* is appended meanwhile.  A step marks no row but the one the sink selected
\* (api, mqtt_publish) or rows of the drained batch (publish_pending); a row
\* inserted while a sink holds its row is stored unpublished, is not among the
\* rows the cycle has drained and does not change the row the sink holds; the
\* scheduler of datalogger/main.py appends nothing while a cycle is running.
C28_MarksOnlyDrained ==
    /\ [](program \in {"pub", "store"} => cyc.marked \subseteq cyc.handled)
    /\ [][program = "pub" =>
            /\ Ids(Published(pubRows')) \ Ids(Published(pubRows))
                  \subseteq ({pubRow} \cap cyc.handled)
            /\ (pubPc # "idle" /\ Ids(pubRows') # Ids(pubRows)) =>
                  /\ (Ids(pubRows') \ Ids(pubRows))
                        \cap (Ids(Published(pubRows')) \cup cyc'.handled) = {}
                  /\ pubRow' = pubRow]_vars
    /\ [][program = "store" =>
            /\ Ids(StorePublished(storeRows')) \ Ids(StorePublished(storeRows))
                  \subseteq Rows(drained)
            /\ (storePc # "idle" => Ids(storeRows') = Ids(storeRows))]_vars

\* api() has marked the row it selected while a row of an earlier timestamp,
\* which its SELECT would have preferred, is stored unpublished: that row was
\* inserted after the SELECT, during the request.
C28_Witness ==
    /\ program = "pub"
    /\ pubPc = "mqtt"
    /\ \E h \in Published(pubRows), r \in Unpublished(pubRows) :
          /\ cyc.marked = {h.id}
          /\ r.timestamp < h.timestamp
          /\ r.id \notin cyc.handled

\* C29: no row is deleted while a publish cycle holds its id: every row a
\* step removes from the table of database.py was Sent before the step, a
\* prune that runs while a fetched batch is held leaves every row of the batch
\* stored and Unsent, and the tables of the two publishers never lose a row.
C29_NoDeleteOfHeldRow ==
    [][/\ program = "db" =>
            /\ \A r \in readings : r.id \notin Ids(readings') => r.sent_flag = 1
            /\ (last.op = "fetch" /\ last'.op = "prune") =>
                  \A k \in 1..Len(last.result) :
                      \E r \in Unsent(readings') : r.id = last.result[k].id
       /\ program = "pub" => Ids(pubRows) \subseteq Ids(pubRows')
       /\ program = "store" => Ids(storeRows) \subseteq Ids(storeRows')]_vars

\* prune_sent_data has deleted rows while a fetched batch was held.
C29_Witness ==
    /\ program = "db"
    /\ last.op = "prune"
    /\ last.ok
    /\ last.ret >= 1
    /\ last.held >= 1
    /\ Unsent(readings) # {}

\* C30: a failure of the store is reported to the caller: an append whose
\* transaction was rolled back on sqlite3.Error, and a markSent whose
\* transaction was, hand the caller something other than what a successful
\* call hands back.
C30_StoreFailureReported ==
    program = "db" =>
        /\ (last.op = "insert" /\ last.outcome = "rolled_back")
              => last.returned # Returned("ok")
        /\ (last.op = "mark" /\ ~last.ok /\ last.n >= 1)
              => last.returned # Returned("ok")

\* C31: no Collector or Publisher cycle runs before init_db has opened the
\* database and created the table, and none ever runs when init_db failed:
\* until the agent is running the table is empty, the scheduler thread has
\* done no job and no reading was offered to the broker, and a failed agent
\* stays failed.
C31_NoCycleBeforeInitDb ==
    /\ []((program = "store" /\ ~Started) =>
             /\ storeRows = {} /\ storeSeq = 0
             /\ storePc = "idle" /\ tick.job = "none"
             /\ cyc = NoCycle /\ acked = {})
    /\ [][(program = "store" /\ agent = "failed")
            => (agent' = "failed" /\ storeRows' = storeRows /\ storePc' = storePc
                /\ tick' = tick /\ cyc' = cyc)]_vars
    /\ [][(program = "store" /\ agent = "running") => agent' = "running"]_vars

\* init_db raised: the process has ended with nothing collected or published,
\* whatever happens to the volume afterwards.
C31_Witness ==
    /\ program = "store"
    /\ agent = "failed"
    /\ tick.job = "none"
    /\ freeGb # 2

\* C32: as free space falls, the published rows are reclaimed before the
\* Collector is held back: a Collector tick that finds free space below the
\* soft threshold finds no published row left in the table.
C32_SentReclaimedBeforeLowSpace ==
    (program = "store" /\ tick.job = "collect" /\ tick.low)
        => StorePublished(storeRows) = {}

\* C33: when read_modbus_data has returned the client is closed, whichever
\* way it returned; it has returned None when connect failed or raised and
\* when an exception escaped the read, and the dict of the values read (the
\* registers whose read failed left out) otherwise.
C33_ClientClosedOnReturn ==
    (program = "modbus" /\ mb.pc = "returned") =>
        /\ ~mb.is_open
        /\ mb.why \in {"connect_false", "connect_raised", "escaped"} => mb.ret = None
        /\ mb.why = "done" => mb.ret = <<"dict", mb.results>>
        /\ mb.why \in {"connect_false", "connect_raised", "escaped", "done"}

\* A read in which one register failed and another gave its value has
\* returned.
C33_Witness ==
    /\ program = "modbus"
    /\ mb.pc = "returned"
    /\ mb.why = "done"
    /\ mb.readFailed
    /\ mb.results # {}
====
